---- MODULE Spec2Model ----
(***************************************************************************)
(* Model of src/main.py: the Telegram moving-average crossover bot.        *)
(*                                                                         *)
(*   - the configuration document, load_config / save_config and the      *)
(*     module-level globals config, chat_id, symbols, monitors;           *)
(*   - start_all_monitors and the Flask handler telegram_webhook, one     *)
(*     step per access to shared state (Flask serves each request on its  *)
(*     own thread, and the handler takes no lock);                        *)
(*   - Monitor (run / stop / on_message) and check_crossover.             *)
(*                                                                         *)
(* Specifications:                                                         *)
(*   Spec            requests handled concurrently on the threads Threads  *)
(*   SpecSeq         requests handled one after the other                  *)
(*   SpecSave        SpecSeq with writes of config.json that may fail      *)
(*   SpecWorker      one Monitor, its feed and calls of its stop()         *)
(*   SpecWorkerFair  SpecWorker with the threads scheduled fairly          *)
(*   SpecDetector    one call of check_crossover                           *)
(* The command specifications do not schedule Monitor threads; closes are  *)
(* integers and means are compared as exact fractions.                     *)
(***************************************************************************)
EXTENDS Integers, Sequences, FiniteSets, TLC

\* ------------------------------------------------------------------ bounds
\* Number of webhook requests handled in one behaviour.
MaxCmds == 3

\* Request-handling threads of the Flask server.
Threads == {1, 2}

\* ------------------------------------------------------------ Python values
\* None / int / str values that reach str(): chat_id and message.chat.id.
PyNone == [tag |-> "none", val |-> ""]
PyStr(s) == [tag |-> "str", val |-> s]
PyInt(i) == [tag |-> "int", val |-> ToString(i)]

\* str(x) for x None, an int or a str.
Str(v) == IF v.tag = "none" THEN "None" ELSE v.val

\* int(s) of the tokens used here: the literals int() accepts, and their value.
IntLiterals ==
    { <<"1", 1>>, <<"2", 2>>, <<"3", 3>>, <<"60", 60>>, <<"120", 120>>,
      <<"0", 0>>, <<"-1", -1>>, <<"+2", 2>>, <<"060", 60>> }

IsIntLiteral(s) == \E p \in IntLiterals : p[1] = s

ParseInt(s) == (CHOOSE p \in IntLiterals : p[1] = s)[2]

\* str.upper() on the symbol tokens used here.
Upper(s) == CASE s = "eurusd" -> "EURUSD"
              [] s = "gbpusd" -> "GBPUSD"
              [] OTHER -> s

\* str.lower() on the command tokens used here.
Lower(s) == CASE s = "/ADDSYMBOL" -> "/addsymbol"
              [] s = "/RemSymbol" -> "/remsymbol"
              [] OTHER -> s

\* text.startswith("/") on the first token of the stripped text.
StartsWithSlash(s) ==
    s \in {"/addsymbol", "/ADDSYMBOL", "/remsymbol", "/RemSymbol",
           "/listsymbols", "/status", "/foo"}

\* f"{name}_{gran}": the registry key.
MonitorKey(name, gran) == name \o "_" \o ToString(gran)

\* int(granularity) // 60, formatted as in the replies and events.
Minutes(gran) == ToString(gran \div 60) \o "m"

\* --------------------------------------------------------------- variables
VARIABLES
    disk,      \* the content of config.json
    config,    \* the dict returned by load_config()
    symbols,   \* the list `symbols`: a sequence of references into symObjs
    symObjs,   \* the symbol dicts {name, timeframes}, by reference
    monitors,  \* the dict `monitors`: its entry table, in insertion order
    mons,      \* the Monitor objects, by reference
    booted,    \* start_all_monitors has run and app.run serves requests
    pc,        \* per handler thread: the line it is about to execute
    lc,        \* per handler thread: the handler's local variables
    sent,      \* per handler thread: send_telegram texts of this request
    pre,       \* per handler thread: the shared state when the request arrived
    ncmds,     \* requests received so far
    seen,      \* per thread in /status: the registry's key sets during the call
    prev,      \* the last confirmed /addsymbol or /remsymbol that has returned
    wpc,       \* Monitor.run thread: the line it is about to execute
    mon,       \* the Monitor of the worker specification
    wsock,     \* the feed connection of mon.ws
    spc,       \* the thread calling mon.stop(): the line it is about to execute
    nstops,    \* calls of mon.stop() so far
    nmsgs,     \* feed messages delivered so far
    hist,      \* what the run thread's sessions and messages did so far
    events,    \* send_telegram / log_event texts of check_crossover
    dpc,       \* detector specification: before or after the call
    data       \* detector specification: the argument of check_crossover

cmdVars == <<disk, config, symbols, symObjs, monitors, mons, booted,
             pc, lc, sent, pre, ncmds, seen, prev>>
workerVars == <<wpc, mon, wsock, spc, nstops, nmsgs, hist>>
detVars == <<dpc, data>>
vars == <<cmdVars, workerVars, detVars, events>>

\* ------------------------------------------------------ configuration file
\* A timeframe dict and a symbol dict of the document.
Timeframe(fast, slow, gran) ==
    [fast_ma |-> fast, slow_ma |-> slow, granularity |-> gran]

SymbolDict(name, tfs) == [name |-> name, timeframes |-> tfs]

\* config.json as a parsed document; has_symbols: the "symbols" field exists.
Document(chat, has, syms) ==
    [kind |-> "doc", chat_id |-> chat, has_symbols |-> has, symbols |-> syms]

MissingFile == [kind |-> "missing", chat_id |-> PyNone, has_symbols |-> FALSE,
                symbols |-> <<>>]

CorruptFile == [kind |-> "corrupt", chat_id |-> PyNone, has_symbols |-> FALSE,
                symbols |-> <<>>]

\* load_config(): the parsed file or, when it is missing or not JSON, the default.
load_config(file) ==
    IF file.kind = "doc"
    THEN [chat_id |-> file.chat_id, has_symbols |-> file.has_symbols,
          symbols |-> file.symbols]
    ELSE [chat_id |-> PyStr(""), has_symbols |-> TRUE, symbols |-> <<>>]

\* The list `symbols` by value: what json.dump sees through config["symbols"].
SymbolList(syms, objs) == [i \in 1..Len(syms) |-> objs[syms[i]]]

\* save_config(config): `symbols` is config["symbols"] only when the loaded
\* document had the field; config.get("symbols", []) is otherwise a list that
\* config does not hold.
save_config(cfg, syms, objs) ==
    Document(cfg.chat_id, cfg.has_symbols,
             IF cfg.has_symbols THEN SymbolList(syms, objs) ELSE <<>>)

\* --------------------------------------------------------- check_crossover
\* closes[start:stop] with Python's rules for negative and out-of-range bounds.
PySlice(seq, start, stop) ==
    LET n == Len(seq)
        clip(i) == IF i < 0 THEN (IF i + n < 0 THEN 0 ELSE i + n)
                   ELSE IF i > n THEN n ELSE i
    IN  SubSeq(seq, clip(start) + 1, clip(stop))

\* closes[start:]
PySliceFrom(seq, start) == PySlice(seq, start, Len(seq))

RECURSIVE SumSeq(_)
SumSeq(seq) == IF seq = <<>> THEN 0 ELSE Head(seq) + SumSeq(Tail(seq))

\* np.mean(xs) as the exact fraction sum / n; n = 0 is nan.
Mean(xs) == [sum |-> SumSeq(xs), n |-> Len(xs)]

\* a <= b on means: the comparison a crossover test must not use.
MeanLessOrEqual(a, b) == a.n > 0 /\ b.n > 0 /\ a.sum * b.n <= b.sum * a.n

\* a < b on means; every comparison with nan is false.
MeanLess(a, b) == a.n > 0 /\ b.n > 0 /\ a.sum * b.n < b.sum * a.n

\* send_telegram(msg) followed by log_event(msg).
Emit(msg) == <<[sink |-> "telegram", text |-> msg], [sink |-> "log", text |-> msg]>>

BullishText(sym, gran) == "[" \o sym \o " " \o Minutes(gran) \o "] Bullish MA crossover!"
BearishText(sym, gran) == "[" \o sym \o " " \o Minutes(gran) \o "] Bearish MA crossover!"

\* A history test that asks for slow + 3 closes.
TooShortByThree(closes, slow) == Len(closes) < slow + 3

\* A history test that asks for slow closes only.
TooShortBelowSlow(closes, slow) == Len(closes) < slow

\* A history test that lets a series of slow + 1 closes through.
TooShortByOne(closes, slow) == Len(closes) < slow + 1

\* Line 46: len(closes) < slow + 2.
TooShort(closes, slow) == Len(closes) < slow + 2

\* check_crossover(data): the notifications and log lines it produces.
check_crossover(d) ==
    LET closes == d.closes
        fast == d.fast_ma
        slow == d.slow_ma
        fast_now == Mean(PySliceFrom(closes, 0 - fast))
        slow_now == Mean(PySliceFrom(closes, 0 - slow))
        fast_prev == Mean(PySlice(closes, 0 - fast - 1, -1))
        slow_prev == Mean(PySlice(closes, 0 - slow - 1, -1))
    IN  IF TooShort(closes, slow) THEN <<>>
        ELSE IF MeanLess(fast_prev, slow_prev) /\ MeanLess(slow_now, fast_now)
        THEN Emit(BullishText(d.name, d.granularity))
        ELSE IF MeanLess(slow_prev, fast_prev) /\ MeanLess(fast_now, slow_now)
        THEN Emit(BearishText(d.name, d.granularity))
        ELSE <<>>

\* ----------------------------------------------------------------- Monitor
\* self.ws before run() has created a session.
NoSession == "None"

\* Monitor.__init__
Monitor(name, fast, slow, gran) ==
    [name |-> name, fast_ma |-> fast, slow_ma |-> slow, granularity |-> gran,
     closes |-> <<>>, ws |-> NoSession, started |-> FALSE, active |-> TRUE]

\* Monitor.start
MonitorStart(m) == [m EXCEPT !.started = TRUE]

\* Monitor.stop that leaves the activity flag set.
MonitorStopKeepsFlag(m) == m

\* Monitor.stop, line 127. Lines 128-129 act on the session; the command
\* specifications do not schedule Monitor threads, so there self.ws is None
\* and line 127 is all of stop().
MonitorStop(m) == [m EXCEPT !.active = FALSE]

\* ---------------------------------------------------------------- registry
\* A deleted slot of the dict's entry table.
Dummy == [key |-> "<dummy>", m |-> 0]

Slots(d, key) == {i \in 1..Len(d) : d[i].key = key}

\* key in monitors
HasKey(d, key) == Slots(d, key) # {}

\* monitors[key]
Lookup(d, key) == d[CHOOSE i \in Slots(d, key) : TRUE].m

\* monitors[key] = m: a new key takes the next slot, a present key keeps its slot.
\* CPython compacts the table only when it resizes it, at the sixth insertion
\* at the earliest; the behaviours explored here insert at most five times.
DictSet(d, key, m) ==
    IF HasKey(d, key)
    THEN [i \in 1..Len(d) |-> IF d[i].key = key THEN [key |-> key, m |-> m] ELSE d[i]]
    ELSE Append(d, [key |-> key, m |-> m])

\* del monitors[key] that deletes nothing.
DictDelNothing(d, key) == d

\* del monitors[key]: the slot stays, marked deleted.
DictDel(d, key) == [i \in 1..Len(d) |-> IF d[i].key = key THEN Dummy ELSE d[i]]

\* len(monitors)
DictLen(d) == Cardinality({i \in 1..Len(d) : d[i] # Dummy})

\* The keys of the dict.
Keys(d) == {d[i].key : i \in {j \in 1..Len(d) : d[j] # Dummy}}

\* start_all_monitors(): one Monitor per timeframe whose key is not registered.
RECURSIVE StartTimeframes(_, _, _, _)
StartTimeframes(name, tfs, d, ms) ==
    IF tfs = <<>> THEN <<d, ms>>
    ELSE LET tf == Head(tfs)
             key == MonitorKey(name, tf.granularity)
         IN  IF HasKey(d, key)
             THEN StartTimeframes(name, Tail(tfs), d, ms)
             ELSE StartTimeframes(name, Tail(tfs),
                      DictSet(d, key, Len(ms) + 1),
                      Append(ms, MonitorStart(
                          Monitor(name, tf.fast_ma, tf.slow_ma, tf.granularity))))

RECURSIVE start_all_monitors(_, _, _)
start_all_monitors(syms, d, ms) ==
    IF syms = <<>> THEN <<d, ms>>
    ELSE LET r == StartTimeframes(Head(syms).name, Head(syms).timeframes, d, ms)
         IN  start_all_monitors(Tail(syms), r[1], r[2])

\* ---------------------------------------------------------- webhook handler
NoTimeframe == Timeframe(0, 0, 0)

\* request.json: has_message, message.chat.id and the tokens of message.text.
Request(has, chat, text) == [has_message |-> has, chat |-> chat, text |-> text]

\* The handler's locals before it has assigned any; request is `data`, and
\* arrival is the request's rank among the requests received.
NoLocals ==
    [request |-> Request(FALSE, PyNone, <<>>), arrival |-> 0,
     op |-> "", sym_name |-> "",
     fast_ma |-> 0, slow_ma |-> 0, gran |-> 0,
     sym |-> 0, tf_to_remove |-> NoTimeframe, m |-> 0, pos |-> 0, used |-> 0,
     active |-> <<>>, keys |-> <<>>, ret |-> 0]

\* The handler returns at line `line` without having touched shared state.
Return(line, texts) ==
    [pc |-> "done", lc |-> [NoLocals EXCEPT !.ret = line], sent |-> texts]

\* The handler goes on to line `to` with its arguments parsed.
Goto(to, op, name, fast, slow, gran) ==
    [pc |-> to,
     lc |-> [NoLocals EXCEPT !.op = op, !.sym_name = name, !.fast_ma = fast,
                             !.slow_ma = slow, !.gran = gran],
     sent |-> <<>>]

UsageAdd == "Usage: /addsymbol SYMBOL FAST_MA SLOW_MA GRANULARITY_SECONDS"
UsageRem == "Usage: /remsymbol SYMBOL GRANULARITY_SECONDS"
NotIntegersAdd == "MA periods and granularity must be integers."
NotIntegerRem == "Granularity must be integer seconds."
UnknownCommand ==
    "Unknown command. Available:\n/addsymbol\n/remsymbol\n/listsymbols\n/status"

\* The /addsymbol branch up to its first use of `symbols`.
ParseAdd(parts) ==
    IF Len(parts) # 5 THEN Return(178, <<UsageAdd>>)
    ELSE IF ~(IsIntLiteral(parts[3]) /\ IsIntLiteral(parts[4])
              /\ IsIntLiteral(parts[5]))
    THEN Return(186, <<NotIntegersAdd>>)
    ELSE Goto("a188", "add", Upper(parts[2]), ParseInt(parts[3]),
              ParseInt(parts[4]), ParseInt(parts[5]))

\* The /remsymbol branch up to its first use of `symbols`.
ParseRem(parts) ==
    IF Len(parts) # 3 THEN Return(215, <<UsageRem>>)
    ELSE IF ~IsIntLiteral(parts[3]) THEN Return(221, <<NotIntegerRem>>)
    ELSE Goto("r222", "rem", Upper(parts[2]), 0, 0, ParseInt(parts[3]))

\* An authorization test that lets every chat in.
AuthorizedAnyChat(req, chat_id) == TRUE

\* The authorization test: the message's chat id against the configured one.
Authorized(req, chat_id) == Str(req.chat) = Str(chat_id)

\* telegram_webhook from its entry to the command's first use of shared state.
Dispatch(req, chat_id) ==
    IF ~req.has_message THEN Return(158, <<>>)
    ELSE IF ~Authorized(req, chat_id) THEN Return(167, <<>>)
    ELSE IF req.text = <<>> \/ ~StartsWithSlash(req.text[1]) THEN Return(274, <<>>)
    ELSE LET parts == req.text
             cmd == Lower(parts[1])
         IN  CASE cmd = "/addsymbol" -> ParseAdd(parts)
               [] cmd = "/remsymbol" -> ParseRem(parts)
               [] cmd = "/listsymbols" -> Goto("l250", "list", "", 0, 0, 0)
               [] cmd = "/status" -> Goto("s262", "status", "", 0, 0, 0)
               [] OTHER -> Return(272, <<UnknownCommand>>)

\* The shared state as a value: the configuration, the registry with its
\* Monitors, and the persisted document.
Snapshot ==
    [symbols |-> SymbolList(symbols, symObjs), monitors |-> monitors,
     mons |-> mons, disk |-> disk]

\* next((s for s in symbols or [] if s["name"] == sym_name), None); 0 is None.
FindSymbol(syms, objs, name) ==
    LET hits == {i \in 1..Len(syms) : objs[syms[i]].name = name}
    IN  IF hits = {} THEN 0
        ELSE syms[CHOOSE i \in hits : \A j \in hits : i <= j]

\* The first index of a sequence whose element equals x; 0 when there is none.
IndexOf(seq, x) ==
    LET hits == {i \in 1..Len(seq) : seq[i] = x}
    IN  IF hits = {} THEN 0 ELSE CHOOSE i \in hits : \A j \in hits : i <= j

\* A sequence without its element at index i.
RemoveAt(seq, i) ==
    [j \in 1..(Len(seq) - 1) |-> IF j < i THEN seq[j] ELSE seq[j + 1]]

\* all() where the code has any(): true of a symbol without timeframes.
HasGranularityAll(tfs, gran) == \A i \in 1..Len(tfs) : tfs[i].granularity = gran

\* any(tf["granularity"] == gran for tf in timeframes)
HasGranularity(tfs, gran) == \E i \in 1..Len(tfs) : tfs[i].granularity = gran

\* The first timeframe with the granularity (the loop of lines 227-230).
FindTimeframe(tfs, gran) ==
    LET hits == {i \in 1..Len(tfs) : tfs[i].granularity = gran}
    IN  tfs[CHOOSE i \in hits : \A j \in hits : i <= j]

\* The registry's key sets a /status call has lived through, from the arrival
\* of the request to its return.
Observe(nextLc, d) ==
    [u \in Threads |->
        IF nextLc[u].op # "status" THEN {}
        ELSE IF pc[u] \in {"done", "raised"} THEN seen[u]
        ELSE seen[u] \cup {Keys(d)}]

\* The value of pre[t] while thread t handles no request.
NoSnapshot ==
    [symbols |-> <<>>, monitors |-> <<>>, mons |-> <<>>, disk |-> MissingFile]

\* A request arrives and is handled up to its first use of shared state.
Receive(t, req, max) ==
    /\ booted
    /\ pc[t] = "idle"
    /\ ncmds < max
    /\ ncmds' = ncmds + 1
    /\ LET r == Dispatch(req, config.chat_id)
       IN  /\ pc' = [pc EXCEPT ![t] = r.pc]
           /\ lc' = [lc EXCEPT ![t] = [r.lc EXCEPT !.request = req,
                                                  !.arrival = ncmds + 1]]
           /\ sent' = [sent EXCEPT ![t] = r.sent]
    /\ pre' = [pre EXCEPT ![t] = Snapshot]
    /\ seen' = Observe(lc', monitors)
    /\ UNCHANGED <<disk, config, symbols, symObjs, monitors, mons, booted, prev>>
    /\ UNCHANGED <<workerVars, detVars, events>>

\* The handler thread's step: new pc, locals and replies for thread t. It is
\* the last conjunct of each action: it reads the registry the action leaves.
Step(t, to, locals, texts) ==
    /\ pc' = [pc EXCEPT ![t] = to]
    /\ lc' = [lc EXCEPT ![t] = locals]
    /\ sent' = [sent EXCEPT ![t] = sent[t] \o texts]
    /\ seen' = Observe(lc', monitors')
    /\ UNCHANGED <<config, booted, pre, ncmds, prev>>
    /\ UNCHANGED <<workerVars, detVars, events>>

\* The handler raises: Flask answers 500 and the thread is done.
Raise(t) == Step(t, "raised", lc[t], <<>>)

\* Line 188: look the symbol up.
Add188(t) ==
    /\ pc[t] = "a188"
    /\ UNCHANGED <<disk, symbols, symObjs, monitors, mons>>
    /\ LET sym == FindSymbol(symbols, symObjs, lc[t].sym_name)
       IN  Step(t, IF sym = 0 THEN "a190" ELSE "a193",
                [lc[t] EXCEPT !.sym = sym], <<>>)

\* Lines 190-191: a new symbol dict, appended to `symbols`.
Add190(t) ==
    /\ pc[t] = "a190"
    /\ symObjs' = Append(symObjs, SymbolDict(lc[t].sym_name, <<>>))
    /\ symbols' = Append(symbols, Len(symObjs) + 1)
    /\ UNCHANGED <<disk, monitors, mons>>
    /\ Step(t, "a193", [lc[t] EXCEPT !.sym = Len(symObjs) + 1], <<>>)

\* Lines 193-195: reject a granularity the symbol already has.
Add193(t) ==
    /\ pc[t] = "a193"
    /\ UNCHANGED <<disk, symbols, symObjs, monitors, mons>>
    /\ IF HasGranularity(symObjs[lc[t].sym].timeframes, lc[t].gran)
       THEN Step(t, "done", [lc[t] EXCEPT !.ret = 195],
                 <<lc[t].sym_name \o " already has timeframe "
                     \o ToString(lc[t].gran) \o "s">>)
       ELSE Step(t, "a196", lc[t], <<>>)

\* Lines 196-200: append the timeframe to the symbol dict.
Add196(t) ==
    /\ pc[t] = "a196"
    /\ symObjs' = [symObjs EXCEPT ![lc[t].sym].timeframes =
                      Append(@, Timeframe(lc[t].fast_ma, lc[t].slow_ma, lc[t].gran))]
    /\ UNCHANGED <<disk, symbols, monitors, mons>>
    /\ Step(t, "a201", lc[t], <<>>)

\* Line 201: save_config(config).
Add201(t) ==
    /\ pc[t] = "a201"
    /\ disk' = save_config(config, symbols, symObjs)
    /\ UNCHANGED <<symbols, symObjs, monitors, mons>>
    /\ Step(t, "a204", lc[t], <<>>)

\* config.json after a save_config that raised OSError: as it was when open()
\* failed; truncated or cut short (no longer JSON) when the write failed.
FailedSave(file) == {file, CorruptFile}

\* Line 201: save_config(config) raises; the handler does not catch it.
Add201Fail(t) ==
    /\ pc[t] = "a201"
    /\ disk' \in FailedSave(disk)
    /\ UNCHANGED <<symbols, symObjs, monitors, mons>>
    /\ Step(t, "raised", [lc[t] EXCEPT !.ret = 201], <<>>)

\* Lines 203-204: is the key registered?
Add204(t) ==
    /\ pc[t] = "a204"
    /\ UNCHANGED <<disk, symbols, symObjs, monitors, mons>>
    /\ Step(t, IF HasKey(monitors, MonitorKey(lc[t].sym_name, lc[t].gran))
               THEN "a208" ELSE "a205",
            lc[t], <<>>)

\* Lines 205-206: construct the Monitor and register it under the key.
Add205(t) ==
    /\ pc[t] = "a205"
    /\ mons' = Append(mons, Monitor(lc[t].sym_name, lc[t].fast_ma,
                                    lc[t].slow_ma, lc[t].gran))
    /\ monitors' = DictSet(monitors, MonitorKey(lc[t].sym_name, lc[t].gran),
                           Len(mons) + 1)
    /\ UNCHANGED <<disk, symbols, symObjs>>
    /\ Step(t, "a207", [lc[t] EXCEPT !.m = Len(mons) + 1], <<>>)

\* Line 207: m.start(); m is the Monitor constructed at line 205.
Add207(t) ==
    /\ pc[t] = "a207"
    /\ mons' = [mons EXCEPT ![lc[t].m] = MonitorStart(@)]
    /\ UNCHANGED <<disk, symbols, symObjs, monitors>>
    /\ Step(t, "a208", lc[t], <<>>)

\* Lines 208-209: the confirmation.
Add208(t) ==
    /\ pc[t] = "a208"
    /\ UNCHANGED <<disk, symbols, symObjs, monitors, mons>>
    /\ Step(t, "done", [lc[t] EXCEPT !.ret = 209],
            <<"Added " \o lc[t].sym_name \o " " \o ToString(lc[t].gran)
                \o "s with fast MA=" \o ToString(lc[t].fast_ma)
                \o " slow MA=" \o ToString(lc[t].slow_ma)>>)

\* Lines 222-225: look the symbol up.
Rem222(t) ==
    /\ pc[t] = "r222"
    /\ UNCHANGED <<disk, symbols, symObjs, monitors, mons>>
    /\ LET sym == FindSymbol(symbols, symObjs, lc[t].sym_name)
       IN  IF sym = 0
           THEN Step(t, "done", [lc[t] EXCEPT !.ret = 225],
                     <<"No symbol " \o lc[t].sym_name \o " found.">>)
           ELSE Step(t, "r226", [lc[t] EXCEPT !.sym = sym], <<>>)

\* Lines 226-233: the symbol's first timeframe with the granularity.
Rem226(t) ==
    /\ pc[t] = "r226"
    /\ UNCHANGED <<disk, symbols, symObjs, monitors, mons>>
    /\ LET tfs == symObjs[lc[t].sym].timeframes
       IN  IF HasGranularity(tfs, lc[t].gran)
           THEN Step(t, "r234",
                     [lc[t] EXCEPT !.tf_to_remove = FindTimeframe(tfs, lc[t].gran)],
                     <<>>)
           ELSE Step(t, "done", [lc[t] EXCEPT !.ret = 233],
                     <<"No timeframe " \o ToString(lc[t].gran) \o "s found for "
                         \o lc[t].sym_name>>)

\* Line 234: list.remove drops the first equal element, or raises ValueError.
Rem234(t) ==
    /\ pc[t] = "r234"
    /\ UNCHANGED <<disk, symbols, monitors, mons>>
    /\ LET i == IndexOf(symObjs[lc[t].sym].timeframes, lc[t].tf_to_remove)
       IN  IF i = 0
           THEN UNCHANGED symObjs /\ Raise(t)
           ELSE /\ symObjs' = [symObjs EXCEPT ![lc[t].sym].timeframes =
                                  RemoveAt(@, i)]
                /\ Step(t, "r237", lc[t], <<>>)

\* Lines 236-237: is the key registered?
Rem237(t) ==
    /\ pc[t] = "r237"
    /\ UNCHANGED <<disk, symbols, symObjs, monitors, mons>>
    /\ Step(t, IF HasKey(monitors, MonitorKey(lc[t].sym_name, lc[t].gran))
               THEN "r238" ELSE "r242",
            lc[t], <<>>)

\* Line 238: monitors[key].stop(); KeyError when the key is gone.
Rem238(t) ==
    /\ pc[t] = "r238"
    /\ UNCHANGED <<disk, symbols, symObjs, monitors>>
    /\ LET key == MonitorKey(lc[t].sym_name, lc[t].gran)
       IN  IF ~HasKey(monitors, key)
           THEN UNCHANGED mons /\ Raise(t)
           ELSE /\ mons' = [mons EXCEPT ![Lookup(monitors, key)] = MonitorStop(@)]
                /\ Step(t, "r239", lc[t], <<>>)

\* Line 239: del monitors[key]; KeyError when the key is gone.
Rem239(t) ==
    /\ pc[t] = "r239"
    /\ UNCHANGED <<disk, symbols, symObjs, mons>>
    /\ LET key == MonitorKey(lc[t].sym_name, lc[t].gran)
       IN  IF ~HasKey(monitors, key)
           THEN UNCHANGED monitors /\ Raise(t)
           ELSE /\ monitors' = DictDel(monitors, key)
                /\ Step(t, "r242", lc[t], <<>>)

\* Line 242: has the symbol any timeframe left?
Rem242(t) ==
    /\ pc[t] = "r242"
    /\ UNCHANGED <<disk, symbols, symObjs, monitors, mons>>
    /\ Step(t, IF Len(symObjs[lc[t].sym].timeframes) = 0 THEN "r243" ELSE "r245",
            lc[t], <<>>)

\* Line 243: symbols.remove(sym) drops the first dict equal to sym, or raises
\* ValueError.
Rem243(t) ==
    /\ pc[t] = "r243"
    /\ UNCHANGED <<disk, symObjs, monitors, mons>>
    /\ LET i == IndexOf(SymbolList(symbols, symObjs), symObjs[lc[t].sym])
       IN  IF i = 0
           THEN UNCHANGED symbols /\ Raise(t)
           ELSE /\ symbols' = RemoveAt(symbols, i)
                /\ Step(t, "r245", lc[t], <<>>)

\* Line 245: save_config(config).
Rem245(t) ==
    /\ pc[t] = "r245"
    /\ disk' = save_config(config, symbols, symObjs)
    /\ UNCHANGED <<symbols, symObjs, monitors, mons>>
    /\ Step(t, "r246", lc[t], <<>>)

\* Line 245: save_config(config) raises; the handler does not catch it.
Rem245Fail(t) ==
    /\ pc[t] = "r245"
    /\ disk' \in FailedSave(disk)
    /\ UNCHANGED <<symbols, symObjs, monitors, mons>>
    /\ Step(t, "raised", [lc[t] EXCEPT !.ret = 245], <<>>)

\* Lines 246-247: the confirmation.
Rem246(t) ==
    /\ pc[t] = "r246"
    /\ UNCHANGED <<disk, symbols, symObjs, monitors, mons>>
    /\ Step(t, "done", [lc[t] EXCEPT !.ret = 247],
            <<"Removed " \o lc[t].sym_name \o " " \o ToString(lc[t].gran)
                \o "s monitor.">>)

\* ', '.join of the timeframes of one symbol (line 255).
RECURSIVE JoinTimeframes(_)
JoinTimeframes(tfs) ==
    IF tfs = <<>> THEN ""
    ELSE LET tf == Head(tfs)
             one == Minutes(tf.granularity) \o " (fast=" \o ToString(tf.fast_ma)
                        \o " slow=" \o ToString(tf.slow_ma) \o ")"
         IN  IF Tail(tfs) = <<>> THEN one
             ELSE one \o ", " \o JoinTimeframes(Tail(tfs))

\* "\n".join of a list of lines.
RECURSIVE JoinLines(_)
JoinLines(lines) ==
    IF lines = <<>> THEN ""
    ELSE IF Tail(lines) = <<>> THEN Head(lines)
    ELSE Head(lines) \o "\n" \o JoinLines(Tail(lines))

\* The reply of /listsymbols (lines 250-257).
ListReply(syms) ==
    IF syms = <<>> THEN "No symbols are being monitored."
    ELSE "Currently monitored symbols:\n"
         \o JoinLines([i \in 1..Len(syms) |->
                syms[i].name \o ": " \o JoinTimeframes(syms[i].timeframes)])

\* Lines 249-258: /listsymbols.
List250(t) ==
    /\ pc[t] = "l250"
    /\ UNCHANGED <<disk, symbols, symObjs, monitors, mons>>
    /\ Step(t, "done", [lc[t] EXCEPT !.ret = 258],
            <<ListReply(SymbolList(symbols, symObjs))>>)

\* Line 262: the iterator of monitors.items() remembers the dict's size.
Status262(t) ==
    /\ pc[t] = "s262"
    /\ UNCHANGED <<disk, symbols, symObjs, monitors, mons>>
    /\ Step(t, "s263", [lc[t] EXCEPT !.pos = 1, !.used = DictLen(monitors)], <<>>)

\* Lines 262-263: the iterator's next entry; RuntimeError when the dict's size
\* is not the one the iterator remembers.
Status263(t) ==
    /\ pc[t] = "s263"
    /\ UNCHANGED <<disk, symbols, symObjs, monitors, mons>>
    /\ LET rest == {i \in lc[t].pos..Len(monitors) : monitors[i] # Dummy}
       IN  IF DictLen(monitors) # lc[t].used THEN Raise(t)
           ELSE IF rest = {} THEN Step(t, "s264", lc[t], <<>>)
           ELSE LET i == CHOOSE j \in rest : \A k \in rest : j <= k
                    m == mons[monitors[i].m]
                IN  Step(t, "s263",
                         [lc[t] EXCEPT !.pos = i + 1,
                              !.keys = Append(@, monitors[i].key),
                              !.active = Append(@, m.name \o " "
                                                   \o Minutes(m.granularity))],
                         <<>>)

\* Lines 264-268: the reply of /status.
Status264(t) ==
    /\ pc[t] = "s264"
    /\ UNCHANGED <<disk, symbols, symObjs, monitors, mons>>
    /\ Step(t, "done", [lc[t] EXCEPT !.ret = 268],
            <<IF lc[t].active # <<>>
              THEN "Active monitors:\n" \o JoinLines(lc[t].active)
              ELSE "No active monitors.">>)

\* No confirmed /addsymbol or /remsymbol has returned yet.
NoCommand == [ret |-> 0, key |-> "", m |-> 0, arrival |-> 0]

\* The command thread t has handled, if it was confirmed (it returned at line
\* 209 or 247): its key and the Monitor the registry held under the key when
\* the request arrived (0: none). Otherwise the record so far.
Completed(t) ==
    IF pc[t] = "done" /\ lc[t].ret \in {209, 247}
    THEN LET key == MonitorKey(lc[t].sym_name, lc[t].gran)
         IN  [ret |-> lc[t].ret, key |-> key,
              m |-> IF HasKey(pre[t].monitors, key)
                    THEN Lookup(pre[t].monitors, key) ELSE 0,
              arrival |-> lc[t].arrival]
    ELSE prev

\* The response is sent and the thread is free for the next request.
Finish(t) ==
    /\ pc[t] \in {"done", "raised"}
    /\ UNCHANGED <<disk, symbols, symObjs, monitors, mons>>
    /\ pc' = [pc EXCEPT ![t] = "idle"]
    /\ lc' = [lc EXCEPT ![t] = NoLocals]
    /\ sent' = [sent EXCEPT ![t] = <<>>]
    /\ seen' = [seen EXCEPT ![t] = {}]
    /\ pre' = [pre EXCEPT ![t] = NoSnapshot]
    /\ prev' = Completed(t)
    /\ UNCHANGED <<config, booted, ncmds>>
    /\ UNCHANGED <<workerVars, detVars, events>>

\* __main__: start_all_monitors(), then app.run serves requests.
Boot ==
    /\ ~booted
    /\ booted' = TRUE
    /\ LET r == start_all_monitors(SymbolList(symbols, symObjs), monitors, mons)
       IN  monitors' = r[1] /\ mons' = r[2]
    /\ UNCHANGED <<disk, config, symbols, symObjs, pc, lc, sent, pre, ncmds, seen,
                   prev>>
    /\ UNCHANGED <<workerVars, detVars, events>>

\* ------------------------------------------------- inputs of the command model
\* The chat the bot is configured for, as the document spells it and as
\* Telegram sends it.
ConfiguredChat == PyStr("123")
OwnerChat == PyInt(123)
OtherChat == PyInt(999)

DocEmpty == Document(ConfiguredChat, TRUE, <<>>)
DocOne ==
    Document(ConfiguredChat, TRUE,
             <<SymbolDict("EURUSD", <<Timeframe(1, 2, 60)>>)>>)
DocTwo ==
    Document(ConfiguredChat, TRUE,
             <<SymbolDict("EURUSD", <<Timeframe(1, 2, 60), Timeframe(2, 3, 120)>>),
               SymbolDict("GBPUSD", <<Timeframe(2, 3, 60)>>)>>)
DocNoSymbols == Document(ConfiguredChat, FALSE, <<>>)

\* Documents the sequential and the concurrent specification start from.
SeqFiles == {MissingFile, CorruptFile, DocNoSymbols, DocEmpty, DocOne, DocTwo}
ConcFiles == {DocEmpty, DocOne}

AddEur60 == <<"/addsymbol", "EURUSD", "1", "2", "60">>
AddEur60b == <<"/ADDSYMBOL", "eurusd", "2", "3", "060">>
AddEur120 == <<"/addsymbol", "EURUSD", "2", "3", "120">>
AddGbp60 == <<"/addsymbol", "GBPUSD", "+2", "3", "60">>
AddEurZero == <<"/addsymbol", "EURUSD", "0", "-1", "60">>
RemEur60 == <<"/remsymbol", "EURUSD", "60">>
RemEur120 == <<"/RemSymbol", "eurusd", "120">>
RemGbp60 == <<"/remsymbol", "GBPUSD", "60">>

\* Requests of the sequential specification.
SeqRequests ==
    { Request(FALSE, PyNone, <<>>),
      Request(TRUE, OtherChat, AddEur60),
      Request(TRUE, PyNone, RemEur60),
      Request(TRUE, OtherChat, <<"/status">>),
      Request(TRUE, PyStr(""), AddGbp60),
      Request(TRUE, OwnerChat, <<>>),
      Request(TRUE, OwnerChat, <<"hello">>),
      Request(TRUE, OwnerChat, <<"/foo">>),
      Request(TRUE, OwnerChat, <<"/listsymbols">>),
      Request(TRUE, OwnerChat, <<"/status">>),
      Request(TRUE, OwnerChat, AddEur60),
      Request(TRUE, OwnerChat, AddEur60b),
      Request(TRUE, OwnerChat, AddEur120),
      Request(TRUE, OwnerChat, AddGbp60),
      Request(TRUE, OwnerChat, AddEurZero),
      Request(TRUE, OwnerChat, <<"/addsymbol", "EURUSD", "1", "2">>),
      Request(TRUE, OwnerChat, <<"/addsymbol", "EURUSD", "1", "x", "60">>),
      Request(TRUE, OwnerChat, RemEur60),
      Request(TRUE, OwnerChat, RemEur120),
      Request(TRUE, OwnerChat, RemGbp60),
      Request(TRUE, OwnerChat, <<"/remsymbol", "EURUSD">>),
      Request(TRUE, OwnerChat, <<"/remsymbol", "EURUSD", "1m">>) }

\* Requests of the concurrent specification.
ConcRequests ==
    { Request(TRUE, OwnerChat, AddEur60),
      Request(TRUE, OwnerChat, AddEur60b),
      Request(TRUE, OwnerChat, AddGbp60),
      Request(TRUE, OwnerChat, RemEur60),
      Request(TRUE, OwnerChat, <<"/listsymbols">>),
      Request(TRUE, OwnerChat, <<"/status">>) }

\* ---------------------------------------------------------- specifications
\* The worker and detector variables while they are not under study.
IdleWorker ==
    /\ wpc = "none"
    /\ mon = Monitor("", 0, 0, 0)
    /\ wsock = [keep_running |-> FALSE, sock |-> "none"]
    /\ spc = "none"
    /\ nstops = 0
    /\ nmsgs = 0
    /\ hist = [carried |-> FALSE, stale_call |-> FALSE, invoked |-> FALSE,
               msg |-> [json |-> FALSE, has_candles |-> FALSE, candles |-> <<>>]]

IdleDetector ==
    /\ dpc = "none"
    /\ data = [name |-> "", fast_ma |-> 0, slow_ma |-> 0, granularity |-> 0,
               closes |-> <<>>]

\* Module load (lines 20-24 and 132): config.json is read, no Monitor exists.
InitCommands(files) ==
    /\ disk \in files
    /\ config = load_config(disk)
    /\ symObjs = config.symbols
    /\ symbols = [i \in 1..Len(config.symbols) |-> i]
    /\ monitors = <<>>
    /\ mons = <<>>
    /\ booted = FALSE
    /\ pc = [t \in Threads |-> "idle"]
    /\ lc = [t \in Threads |-> NoLocals]
    /\ sent = [t \in Threads |-> <<>>]
    /\ pre = [t \in Threads |-> NoSnapshot]
    /\ seen = [t \in Threads |-> {}]
    /\ prev = [ret |-> 0, key |-> "", m |-> 0, arrival |-> 0]
    /\ ncmds = 0

\* The steps of one handler thread after the request's arrival.
Handle(t) ==
    \/ Add188(t) \/ Add190(t) \/ Add193(t) \/ Add196(t) \/ Add201(t)
    \/ Add204(t) \/ Add205(t) \/ Add207(t) \/ Add208(t)
    \/ Rem222(t) \/ Rem226(t) \/ Rem234(t) \/ Rem237(t) \/ Rem238(t)
    \/ Rem239(t) \/ Rem242(t) \/ Rem243(t) \/ Rem245(t) \/ Rem246(t)
    \/ List250(t) \/ Status262(t) \/ Status263(t) \/ Status264(t)
    \/ Finish(t)

\* Requests handled concurrently, each on its own thread.
Init == InitCommands(ConcFiles) /\ IdleWorker /\ IdleDetector /\ events = <<>>

Next ==
    \/ Boot
    \/ \E t \in Threads : \E req \in ConcRequests : Receive(t, req, MaxCmds)
    \/ \E t \in Threads : Handle(t)

Spec == Init /\ [][Next]_vars

\* Requests handled one after the other.
MaxSeqCmds == 4

InitSeq == InitCommands(SeqFiles) /\ IdleWorker /\ IdleDetector /\ events = <<>>

NextSeq ==
    \/ Boot
    \/ \E req \in SeqRequests : Receive(1, req, MaxSeqCmds)
    \/ Handle(1)

SpecSeq == InitSeq /\ [][NextSeq]_vars

\* Requests handled one after the other, with a config.json that may fail to
\* be written (disk full, file not writable).
SaveFiles == {DocEmpty, DocOne}

SaveRequests ==
    { Request(TRUE, OwnerChat, AddEur60),
      Request(TRUE, OwnerChat, AddGbp60),
      Request(TRUE, OwnerChat, RemEur60),
      Request(TRUE, OwnerChat, <<"/listsymbols">>),
      Request(TRUE, OwnerChat, <<"/status">>) }

InitSave == InitCommands(SaveFiles) /\ IdleWorker /\ IdleDetector /\ events = <<>>

NextSave ==
    \/ Boot
    \/ \E req \in SaveRequests : Receive(1, req, MaxSeqCmds)
    \/ Handle(1)
    \/ Add201Fail(1)
    \/ Rem245Fail(1)

SpecSave == InitSave /\ [][NextSave]_vars

\* ------------------------------------------------------------- the detector
\* Longest closing-price series, largest window and highest price tried.
MaxLen == 5
MaxWindow == 3
MaxPrice == 3

RECURSIVE SeqsUpTo(_, _)
SeqsUpTo(S, n) ==
    IF n = 0 THEN {<<>>}
    ELSE LET shorter == SeqsUpTo(S, n - 1)
         IN  shorter \cup {Append(q, x) : q \in shorter, x \in S}

\* The series of the specification's two scenarios, and the second one with
\* one earlier close.
ScenarioSeries == {<<9, 10, 11, 9, 8, 7>>, <<5, 4, 6>>, <<5, 5, 4, 6>>}

\* fast_ma and slow_ma are whatever int() made of the command's arguments:
\* zero and negative windows reach the detector too.
Windows == -1..MaxWindow

\* One call of check_crossover on an argument drawn from the bounded inputs.
InitDetector ==
    /\ dpc = "call"
    /\ \E closes \in SeqsUpTo(1..MaxPrice, MaxLen) \cup ScenarioSeries :
       \E fast \in Windows, slow \in Windows, gran \in {60, 300} :
          data = [name |-> "EURUSD", fast_ma |-> fast, slow_ma |-> slow,
                  granularity |-> gran, closes |-> closes]
    /\ events = <<>>

Detect ==
    /\ dpc = "call"
    /\ dpc' = "returned"
    /\ events' = events \o check_crossover(data)
    /\ UNCHANGED <<data, cmdVars, workerVars>>

\* The command variables while they are not under study.
IdleCommands ==
    /\ disk = MissingFile
    /\ config = load_config(MissingFile)
    /\ symbols = <<>>
    /\ symObjs = <<>>
    /\ monitors = <<>>
    /\ mons = <<>>
    /\ booted = FALSE
    /\ pc = [t \in Threads |-> "idle"]
    /\ lc = [t \in Threads |-> NoLocals]
    /\ sent = [t \in Threads |-> <<>>]
    /\ pre = [t \in Threads |-> NoSnapshot]
    /\ seen = [t \in Threads |-> {}]
    /\ prev = [ret |-> 0, key |-> "", m |-> 0, arrival |-> 0]
    /\ ncmds = 0

InitDet == InitDetector /\ IdleCommands /\ IdleWorker

NextDet == Detect

SpecDetector == InitDet /\ [][NextDet]_vars

\* --------------------------------------------------------------- the worker
\* Feed messages delivered to one Monitor, and calls of its stop().
MaxMsgs == 2
MaxStops == 2

\* A feed message as on_message sees it: text that json.loads rejects, a JSON
\* object without candles, or a candle batch; a candle is its "close" field,
\* 0 standing for a candle that has none.
Unparsable == [json |-> FALSE, has_candles |-> FALSE, candles |-> <<>>]
NoCandles == [json |-> TRUE, has_candles |-> FALSE, candles |-> <<>>]
Batch(cs) == [json |-> TRUE, has_candles |-> TRUE, candles |-> cs]

FeedMessages ==
    { Unparsable, NoCandles, Batch(<<>>), Batch(<<2, 0, 3, 1>>),
      Batch(<<3, 3, 1, 3>>), Batch(<<1, 1, 3, 1>>), Batch(<<2, 2, 2, 2>>),
      Batch(<<1, 2>>) }

\* A conversion that skips the candles without a close.
CandleClosesSkipBad(candles) ==
    [raised |-> FALSE, closes |-> SelectSeq(candles, LAMBDA c : c # 0)]

\* Line 84: [float(c["close"]) for c in candles] raises on the first candle
\* without a usable close, before anything is assigned.
CandleCloses(candles) ==
    [raised |-> \E i \in 1..Len(candles) : candles[i] = 0, closes |-> candles]

\* on_message returns without having assigned self.closes or called the
\* detector: the message was not JSON (the exception is caught and printed at
\* lines 93-94), had no candles, or held a candle line 84 raised on.
Dropped(m) == [closes |-> m.closes, out |-> <<>>, assigned |-> FALSE,
               invoked |-> FALSE]

\* Monitor.on_message: the closes it leaves in self.closes, what the detector
\* emits, and whether line 85 and line 86 were reached.
on_message(m, msg) ==
    IF ~msg.json THEN Dropped(m)
    ELSE IF ~msg.has_candles \/ msg.candles = <<>> THEN Dropped(m)
    ELSE LET r == CandleCloses(msg.candles)
         IN  IF r.raised THEN Dropped(m)
             ELSE [closes |-> r.closes,
                   out |-> check_crossover([name |-> m.name, fast_ma |-> m.fast_ma,
                                            slow_ma |-> m.slow_ma,
                                            granularity |-> m.granularity,
                                            closes |-> r.closes]),
                   assigned |-> TRUE, invoked |-> TRUE]

\* websocket.WebSocketApp: a new object, run_forever() entered, close().
NewSession == [keep_running |-> FALSE, sock |-> "none"]

RunForever(ws, connected) ==
    [keep_running |-> TRUE, sock |-> IF connected THEN "open" ELSE "none"]

SessionClose(ws) ==
    [keep_running |-> FALSE, sock |-> IF ws.sock = "open" THEN "closed" ELSE ws.sock]

\* A run loop whose thread dies of an exception of the session.
AfterSessionUncaught(raised) == IF raised THEN "exited" ELSE "w121"

\* Lines 118-121: run_forever() has returned, or the try block has raised an
\* Exception, which line 119 catches and line 120 prints; both go on to the
\* sleep of line 121.
AfterSession(raised) == "w121"

\* Ghost record of the run thread: the stored closes were received on an
\* earlier session (carried), the detector was called on such closes
\* (stale_call), and the last message delivered with whether it reached the
\* detector (msg, invoked).
NoHistory ==
    [carried |-> FALSE, stale_call |-> FALSE, invoked |-> FALSE,
     msg |-> Unparsable]

InitWorker ==
    /\ wpc = "new"
    /\ mon = Monitor("EURUSD", 1, 2, 60)
    /\ wsock = NewSession
    /\ spc = "idle"
    /\ nstops = 0
    /\ nmsgs = 0
    /\ hist = NoHistory
    /\ events = <<>>

\* Monitor.start(): the thread begins run().
WStart ==
    /\ wpc = "new"
    /\ wpc' = "w109"
    /\ mon' = MonitorStart(mon)
    /\ UNCHANGED <<wsock, spc, nstops, nmsgs, events, cmdVars, detVars, hist>>

\* Line 109: while self.active.
Run109 ==
    /\ wpc = "w109"
    /\ wpc' = IF mon.active THEN "w112" ELSE "exited"
    /\ UNCHANGED <<mon, wsock, spc, nstops, nmsgs, events, cmdVars, detVars, hist>>

\* Lines 111-117: self.ws = websocket.WebSocketApp(...).
Run112 ==
    /\ wpc = "w112"
    /\ wpc' = "w118"
    /\ wsock' = NewSession
    /\ mon' = [mon EXCEPT !.ws = "session"]
    /\ hist' = [hist EXCEPT !.carried = (mon.closes # <<>>)]
    /\ UNCHANGED <<spc, nstops, nmsgs, events, cmdVars, detVars>>

\* Line 118: run_forever() connects and, connected, subscribes (on_open) and
\* reads; a failed connection makes it return or raise.
Run118 ==
    /\ wpc = "w118"
    /\ \E connected \in BOOLEAN, raised \in BOOLEAN :
          /\ wsock' = RunForever(wsock, connected)
          /\ wpc' = IF connected THEN "streaming" ELSE AfterSession(raised)
    /\ UNCHANGED <<mon, spc, nstops, nmsgs, events, cmdVars, detVars, hist>>

\* run_forever() returns because close() was called on the session.
RunClosed ==
    /\ wpc = "streaming"
    /\ wsock.sock = "closed"
    /\ wpc' = AfterSession(FALSE)
    /\ UNCHANGED <<mon, wsock, spc, nstops, nmsgs, events, cmdVars, detVars, hist>>

\* Line 121: time.sleep(5), then back to the loop's test.
Run121 ==
    /\ wpc = "w121"
    /\ wpc' = "w109"
    /\ UNCHANGED <<mon, wsock, spc, nstops, nmsgs, events, cmdVars, detVars, hist>>

\* The feed delivers a message: Monitor.on_message.
FeedMessage(msg) ==
    /\ wpc = "streaming"
    /\ wsock.sock = "open"
    /\ nmsgs < MaxMsgs
    /\ nmsgs' = nmsgs + 1
    /\ LET r == on_message(mon, msg)
           carried == hist.carried /\ ~r.assigned
       IN  /\ mon' = [mon EXCEPT !.closes = r.closes]
           /\ events' = events \o r.out
           /\ hist' = [carried |-> carried,
                       stale_call |-> hist.stale_call \/ (r.invoked /\ carried),
                       invoked |-> r.invoked, msg |-> msg]
    /\ UNCHANGED <<wpc, wsock, spc, nstops, cmdVars, detVars>>

\* The feed closes the connection or the session fails: run_forever() returns
\* or raises.
FeedClose ==
    /\ wpc = "streaming"
    /\ wsock.sock = "open"
    /\ wsock' = [wsock EXCEPT !.sock = "none"]
    /\ \E raised \in BOOLEAN : wpc' = AfterSession(raised)
    /\ UNCHANGED <<mon, spc, nstops, nmsgs, events, cmdVars, detVars, hist>>

\* Line 127, on the thread that calls stop().
Stop127 ==
    /\ spc = "idle"
    /\ nstops < MaxStops
    /\ nstops' = nstops + 1
    /\ mon' = MonitorStop(mon)
    /\ spc' = "s128"
    /\ UNCHANGED <<wpc, wsock, nmsgs, events, cmdVars, detVars, hist>>

\* Line 128: if self.ws.
Stop128 ==
    /\ spc = "s128"
    /\ spc' = IF mon.ws # NoSession THEN "s129" ELSE "idle"
    /\ UNCHANGED <<wpc, mon, wsock, nstops, nmsgs, events, cmdVars, detVars, hist>>

\* Line 129: self.ws.close().
Stop129 ==
    /\ spc = "s129"
    /\ spc' = "idle"
    /\ wsock' = SessionClose(wsock)
    /\ UNCHANGED <<wpc, mon, nstops, nmsgs, events, cmdVars, detVars, hist>>

\* The steps of the Monitor's thread and of a stop() call under way.
RunStep == WStart \/ Run109 \/ Run112 \/ Run118 \/ RunClosed \/ Run121
StopStep == Stop128 \/ Stop129

NextWorker ==
    \/ RunStep
    \/ StopStep
    \/ Stop127
    \/ FeedClose
    \/ \E msg \in FeedMessages : FeedMessage(msg)

InitMon == InitWorker /\ IdleCommands /\ IdleDetector

SpecWorker == InitMon /\ [][NextWorker]_vars

\* The threads are scheduled: the Monitor's thread and a stop() call take
\* their next step. Nothing obliges the feed to send or to close.
SpecWorkerFair == SpecWorker /\ WF_vars(RunStep) /\ WF_vars(StopStep)

\* ------------------------------------------------------------------ claims
\* The in-memory configuration by value.
Configured == SymbolList(symbols, symObjs)

\* The (symbol, timeframe) positions of a configuration.
Entries(syms) ==
    UNION {{<<i, j>> : j \in 1..Len(syms[i].timeframes)} : i \in 1..Len(syms)}

\* The registry keys a configuration asks for.
ConfigKeys(syms) ==
    {MonitorKey(syms[e[1]].name, syms[e[1]].timeframes[e[2]].granularity) :
        e \in Entries(syms)}

\* The Monitors of `ms` launched for a key and not asked to stop.
Running(ms, key) ==
    {m \in 1..Len(ms) :
        /\ ms[m].started
        /\ ms[m].active
        /\ MonitorKey(ms[m].name, ms[m].granularity) = key}

\* C1: under every interleaving of concurrently handled /addsymbol commands,
\* each key has at most one Worker that was launched and not stopped, and that
\* Worker is the one the registry holds under the key.
C1_OneWorkerPerKey ==
    \A m \in 1..Len(mons) :
        mons[m].started /\ mons[m].active
        => LET key == MonitorKey(mons[m].name, mons[m].granularity)
           IN  /\ Running(mons, key) = {m}
               /\ HasKey(monitors, key)
               /\ Lookup(monitors, key) = m

\* C2: after start_all_monitors and after every completed command handled
\* one at a time, the registry's keys are the configuration's (symbol,
\* granularity) pairs and each registered Worker carries the windows of its
\* configuration entry.
C2_RegistryMatchesConfig ==
    booted /\ pc[1] \in {"idle", "done"}
    => /\ Keys(monitors) = ConfigKeys(Configured)
       /\ \A e \in Entries(Configured) :
            LET sym == Configured[e[1]]
                tf == sym.timeframes[e[2]]
                m == mons[Lookup(monitors, MonitorKey(sym.name, tf.granularity))]
            IN  /\ m.name = sym.name
                /\ m.granularity = tf.granularity
                /\ m.fast_ma = tf.fast_ma
                /\ m.slow_ma = tf.slow_ma
                /\ m.started /\ m.active

\* C2 witness: a removal has completed and two Workers remain registered.
C2_Witness ==
    /\ pc[1] = "done"
    /\ lc[1].ret = 247
    /\ ncmds >= 2
    /\ Cardinality(Keys(monitors)) >= 2

\* C4: a /status handled concurrently with /addsymbol and /remsymbol never
\* fails, and the keys it lists are the registry's keys at one instant of the
\* call.
C4_StatusSnapshot ==
    \A t \in Threads :
        lc[t].op = "status"
        => /\ pc[t] # "raised"
           /\ pc[t] = "done"
              => {lc[t].keys[i] : i \in 1..Len(lc[t].keys)} \in seen[t]

\* C5: in every reachable state the configuration holds each (symbol,
\* granularity) at most once: no two symbol entries share a name and no symbol
\* has two timeframes of one granularity.
C5_NoDuplicateKeys ==
    /\ \A i, j \in 1..Len(Configured) :
          Configured[i].name = Configured[j].name => i = j
    /\ \A i \in 1..Len(Configured) :
          \A j, k \in 1..Len(Configured[i].timeframes) :
              Configured[i].timeframes[j].granularity
                  = Configured[i].timeframes[k].granularity => j = k

\* The request thread t handles, as the claims read it.
TextOf(t) == lc[t].request.text

Admitted(t) ==
    /\ pc[t] # "idle"
    /\ lc[t].request.has_message
    /\ Str(lc[t].request.chat) = Str(config.chat_id)
    /\ TextOf(t) # <<>>

IsCommand(t, cmd) == Admitted(t) /\ Lower(TextOf(t)[1]) = cmd

\* /addsymbol or /remsymbol with the wrong arity or a non-integer argument.
Malformed(t) ==
    \/ /\ IsCommand(t, "/addsymbol")
       /\ \/ Len(TextOf(t)) # 5
          \/ \E i \in 3..5 : ~IsIntLiteral(TextOf(t)[i])
    \/ /\ IsCommand(t, "/remsymbol")
       /\ \/ Len(TextOf(t)) # 3
          \/ ~IsIntLiteral(TextOf(t)[3])

\* The key a well-formed /addsymbol or /remsymbol names.
RequestKey(t) ==
    MonitorKey(Upper(TextOf(t)[2]),
               ParseInt(TextOf(t)[IF Len(TextOf(t)) = 5 THEN 5 ELSE 3]))

\* /addsymbol of a key that was configured when the request arrived.
DuplicateAdd(t) ==
    /\ IsCommand(t, "/addsymbol")
    /\ ~Malformed(t)
    /\ RequestKey(t) \in ConfigKeys(pre[t].symbols)

\* /remsymbol of a key that was not configured when the request arrived.
AbsentRemove(t) ==
    /\ IsCommand(t, "/remsymbol")
    /\ ~Malformed(t)
    /\ RequestKey(t) \notin ConfigKeys(pre[t].symbols)

\* C6: a rejected command (malformed, duplicate add, remove of an unknown
\* symbol or timeframe) leaves the configuration, the registry with its
\* Workers and the persisted document as they were and sends one reply; the
\* duplicate add says "already has timeframe" and its key keeps one Worker.
C6_RejectedLeavesState ==
    pc[1] = "done" /\ (Malformed(1) \/ DuplicateAdd(1) \/ AbsentRemove(1))
    => /\ Snapshot = pre[1]
       /\ Len(sent[1]) = 1
       /\ DuplicateAdd(1)
          => /\ sent[1][1] = Upper(TextOf(1)[2]) \o " already has timeframe "
                                \o ToString(ParseInt(TextOf(1)[5])) \o "s"
             /\ Cardinality(Running(mons, RequestKey(1))) = 1
             /\ Cardinality(Slots(monitors, RequestKey(1))) = 1

\* C6 witness: "/addsymbol EURUSD 1 2 60" twice; the second is rejected.
C6_Witness ==
    /\ pc[1] = "done"
    /\ TextOf(1) = AddEur60
    /\ DuplicateAdd(1)
    /\ sent[1] = <<"EURUSD already has timeframe 60s">>
    /\ pre[1].symbols = <<SymbolDict("EURUSD", <<Timeframe(1, 2, 60)>>)>>
    /\ Cardinality(Running(mons, "EURUSD_60")) = 1
    /\ ncmds >= 2

\* C7: for every document accepted at startup, after a confirmed /addsymbol
\* or /remsymbol the persisted symbols list is the in-memory one.
C7_PersistedEqualsMemory ==
    pc[1] = "done" /\ lc[1].ret \in {209, 247}
    => /\ disk.kind = "doc"
       /\ disk.has_symbols
       /\ disk.symbols = Configured

\* A configuration without the timeframe (name, gran), and without the symbol
\* when that leaves it no timeframe.
RECURSIVE Without(_, _, _)
Without(syms, name, gran) ==
    IF syms = <<>> THEN <<>>
    ELSE LET sym == Head(syms)
             kept == SelectSeq(sym.timeframes,
                               LAMBDA tf : tf.granularity # gran)
             rest == Without(Tail(syms), name, gran)
         IN  IF sym.name # name THEN <<sym>> \o rest
             ELSE IF kept = <<>> THEN rest
             ELSE <<SymbolDict(name, kept)>> \o rest

\* No symbol of a configuration has an empty timeframe list.
NoEmptySymbol(syms) == \A i \in 1..Len(syms) : syms[i].timeframes # <<>>

\* C8: a confirmed /remsymbol removes exactly its timeframe (and the symbol,
\* when that was its last), drops the key from the registry and asks its
\* Worker to stop; no completed command leaves a symbol without timeframes in
\* the configuration or in the persisted document.
C8_RemoveExact ==
    /\ pc[1] = "done" /\ lc[1].ret = 247
       => LET name == Upper(TextOf(1)[2])
              gran == ParseInt(TextOf(1)[3])
              key == MonitorKey(name, gran)
          IN  /\ Configured = Without(pre[1].symbols, name, gran)
              /\ Configured # pre[1].symbols
              /\ HasKey(pre[1].monitors, key)
              /\ Keys(monitors) = Keys(pre[1].monitors) \ {key}
              /\ \A m \in 1..Len(mons) :
                    IF m = Lookup(pre[1].monitors, key)
                    THEN pre[1].mons[m].active /\ ~mons[m].active
                    ELSE mons[m] = pre[1].mons[m]
    /\ pc[1] \in {"idle", "done"} => NoEmptySymbol(Configured)
    /\ NoEmptySymbol(disk.symbols)

\* C8 witness: the removed timeframe was the symbol's last, and another symbol
\* stays configured.
C8_Witness ==
    /\ pc[1] = "done"
    /\ lc[1].ret = 247
    /\ Len(Configured) < Len(pre[1].symbols)
    /\ Len(Configured) >= 1

\* C9: a request from a chat other than the configured one changes neither
\* the configuration, the registry and its Workers nor the persisted document
\* and sends no reply.
C9_UnauthorizedIgnored ==
    /\ pc[1] # "idle"
    /\ lc[1].request.has_message
    /\ Str(lc[1].request.chat) # Str(config.chat_id)
    => /\ pc[1] = "done"
       /\ Snapshot = pre[1]
       /\ sent[1] = <<>>

\* C9 witness: a well-formed /addsymbol from another chat has been answered.
C9_Witness ==
    /\ pc[1] = "done"
    /\ lc[1].request = Request(TRUE, OtherChat, AddEur60)
    /\ disk = DocOne
    /\ Snapshot = pre[1]

\* stop() has been called and has returned.
Stopped == nstops >= 1 /\ spc = "idle"

\* C3: once stop() has been called from another thread, wherever run() is,
\* the session is closed and the loop exits without the feed having to close
\* the connection.
C3_StopLeadsToExit == Stopped ~> (wpc = "exited")

\* The last n elements of a series (all of it when it has fewer).
LastN(S, n) == SubSeq(S, IF Len(S) > n THEN Len(S) - n + 1 ELSE 1, Len(S))

\* The series without its latest sample.
Front(S) == SubSeq(S, 1, Len(S) - 1)

\* mean(A) < mean(B), both non-empty.
Below(A, B) == SumSeq(A) * Len(B) < SumSeq(B) * Len(A)

BullishCross(S, f, s) ==
    /\ Below(LastN(Front(S), f), LastN(Front(S), s))
    /\ Below(LastN(S, s), LastN(S, f))

BearishCross(S, f, s) ==
    /\ Below(LastN(Front(S), s), LastN(Front(S), f))
    /\ Below(LastN(S, f), LastN(S, s))

Texts(evs) == {evs[i].text : i \in 1..Len(evs)}

\* C10: with positive windows, on a series of at least slowWindow + 2 closes
\* the detector emits a
\* bullish event iff fastPrev < slowPrev and fastNow > slowNow, a bearish one
\* iff fastPrev > slowPrev and fastNow < slowNow, and nothing otherwise; the
\* means are over the last fast / slow closes, now and one sample back.
C10_CrossIffStrictFlip ==
    /\ dpc = "returned"
    /\ data.fast_ma >= 1 /\ data.slow_ma >= 1
    /\ Len(data.closes) >= data.slow_ma + 2
    => LET S == data.closes
           f == data.fast_ma
           s == data.slow_ma
       IN  /\ BullishCross(S, f, s)
              <=> Texts(events) = {BullishText(data.name, data.granularity)}
           /\ BearishCross(S, f, s)
              <=> Texts(events) = {BearishText(data.name, data.granularity)}
           /\ ~BullishCross(S, f, s) /\ ~BearishCross(S, f, s)
              <=> events = <<>>

\* C10 witness: the fast and slow means were equal one sample back and differ
\* now, and the detector has returned without an event.
C10_Witness ==
    /\ dpc = "returned"
    /\ data.fast_ma >= 1 /\ data.slow_ma >= 1
    /\ Len(data.closes) >= data.slow_ma + 2
    /\ data.fast_ma # data.slow_ma
    /\ SumSeq(LastN(Front(data.closes), data.fast_ma)) * data.slow_ma
         = SumSeq(LastN(Front(data.closes), data.slow_ma)) * data.fast_ma
    /\ Below(LastN(data.closes, data.slow_ma), LastN(data.closes, data.fast_ma))
    /\ events = <<>>

\* The detector has returned from a call with fast = 1 and slow = 2 on S.
ExampleCall(S) ==
    /\ dpc = "returned"
    /\ data.closes = S
    /\ data.fast_ma = 1
    /\ data.slow_ma = 2

\* C11 as stated: for the series [5, 4, 6] with fast = 1 and slow = 2 the
\* detector returns BullishCross.
C11_ExampleBullish ==
    ExampleCall(<<5, 4, 6>>)
    => Texts(events) = {BullishText(data.name, data.granularity)}

\* C11 as amended: for [5, 4, 6] with fast = 1 and slow = 2 the detector
\* returns NoSignal, the series having fewer than slow + 2 = 4 closes; with
\* one earlier close, [5, 5, 4, 6], it returns BullishCross (one notification
\* and one log line).
C11_ExampleNeedsFourCloses ==
    /\ ExampleCall(<<5, 4, 6>>) => events = <<>>
    /\ ExampleCall(<<5, 5, 4, 6>>)
       => events = Emit(BullishText(data.name, data.granularity))

\* C11 witness: the call on [5, 4, 6] has returned without an event, although
\* the means of the example flip.
C11_Witness ==
    /\ ExampleCall(<<5, 4, 6>>)
    /\ BullishCross(data.closes, 1, 2)
    /\ events = <<>>

\* C12: on a series of fewer than slowWindow + 2 closes the detector returns
\* without a notification and without a log line, whatever the windows.
C12_ShortSeriesNoSignal ==
    Len(data.closes) < data.slow_ma + 2 /\ dpc # "call"
    => dpc = "returned" /\ events = <<>>

\* C12 witness: a series of slowWindow + 1 closes whose means flip, and the
\* detector has returned without an event.
C12_Witness ==
    /\ dpc = "returned"
    /\ data.fast_ma >= 1 /\ data.slow_ma >= 1
    /\ Len(data.closes) = data.slow_ma + 1
    /\ BearishCross(data.closes, data.fast_ma, data.slow_ma)
    /\ events = <<>>

\* C13: a /remsymbol never raises, in every interleaving; when the /remsymbol
\* commands under way for a key have all returned, its Worker has been asked
\* to stop and the key is absent from the registry and from the configuration.
C13_RemoveNeverRaises ==
    /\ \A t \in Threads : lc[t].op = "rem" => pc[t] # "raised"
    /\ \A t \in Threads :
          /\ lc[t].op = "rem" /\ pc[t] = "done" /\ lc[t].ret = 247
          /\ \A u \in Threads : pc[u] \in {"idle", "done"}
          => LET key == MonitorKey(lc[t].sym_name, lc[t].gran)
             IN  /\ ~HasKey(monitors, key)
                 /\ key \notin ConfigKeys(Configured)
                 /\ Running(mons, key) = {}

\* C14: when save_config fails in /addsymbol or /remsymbol, every configured
\* timeframe still has a registered, running Worker, and no timeframe of the
\* persisted document is left with its Worker stopped.
C14_SaveFailureAtomic ==
    pc[1] = "raised" /\ lc[1].ret \in {201, 245}
    => /\ \A key \in ConfigKeys(Configured) :
             HasKey(monitors, key) /\ Running(mons, key) # {}
       /\ disk.kind = "doc"
          => \A key \in ConfigKeys(disk.symbols) : Running(mons, key) # {}

\* C15: a Worker on which stop() was never called has not left its loop, and
\* after every failed connection, session error or close it reaches the sleep
\* of the loop and from there opens a new session, unless a stop is requested
\* meanwhile.
C15_RetriesUntilStopped ==
    /\ [](wpc = "exited" => nstops >= 1)
    /\ (wpc = "w121" /\ nstops = 0) ~> (wpc = "w118" \/ nstops >= 1)

\* C15 witness: no stop was requested, an earlier session has delivered closes
\* and ended, and the loop has created the next session.
C15_Witness ==
    /\ nstops = 0
    /\ wpc = "w118"
    /\ mon.closes # <<>>
    /\ mon.active

\* C16: once the loop has opened a new session, the stored closes hold nothing
\* received on an earlier session, and the detector is never called on closes
\* received before the latest reconnect.
C16_NoCarryOver ==
    /\ wpc \in {"w118", "streaming"} => ~hist.carried
    /\ ~hist.stale_call

\* A message on_message has to drop.
Malformed_msg(msg) ==
    \/ ~msg.json
    \/ ~msg.has_candles
    \/ msg.candles = <<>>
    \/ \E i \in 1..Len(msg.candles) : msg.candles[i] = 0

\* C17: the delivery of a message that is unparsable, has no or an empty
\* candle batch, or holds a candle without a close leaves the stored closes
\* and the Monitor as they were, does not call the detector, emits nothing,
\* leaves the Worker streaming on its session, and leaves the rest of the
\* program alone.
C17_MalformedDropped ==
    [][nmsgs' = nmsgs + 1 /\ Malformed_msg(hist'.msg)
       => /\ mon' = mon
          /\ ~hist'.invoked
          /\ events' = events
          /\ wpc' = "streaming" /\ wsock' = wsock
          /\ UNCHANGED <<cmdVars, detVars, spc, nstops>>]_vars

\* C17 witness: closes are stored, and the last message delivered held a
\* candle without a close.
C17_Witness ==
    /\ nmsgs = 2
    /\ hist.msg = Batch(<<2, 0, 3, 1>>)
    /\ mon.closes = <<1, 1, 3, 1>>
    /\ wpc = "streaming"

\* The detector has returned from a call with positive windows, the fast one
\* no longer than the slow one.
OrderedWindows ==
    /\ dpc = "returned"
    /\ data.fast_ma >= 1
    /\ data.fast_ma <= data.slow_ma

\* What the detector emits on the last n closes of the series it was called on.
OnSuffix(n) == check_crossover([data EXCEPT !.closes = LastN(data.closes, n)])

\* C18 as stated: with positive windows, fast <= slow, the detector's result
\* on a series is its result on the last slowWindow + 1 closes of the series.
C18_LastSlowPlusOne == OrderedWindows => events = OnSuffix(data.slow_ma + 1)

\* C18 as amended: with positive windows, fast <= slow, the detector's result
\* on a series is its result on the last slowWindow + 2 closes of the series.
C18_LastSlowPlusTwo == OrderedWindows => events = OnSuffix(data.slow_ma + 2)

\* C18 witness: the series is longer than slowWindow + 2 closes and the
\* detector has emitted an event on it.
C18_Witness ==
    /\ OrderedWindows
    /\ data.fast_ma < data.slow_ma
    /\ Len(data.closes) > data.slow_ma + 2
    /\ events # <<>>

\* C19: in every reachable state each timeframe of the configuration and each
\* registered Worker has fast and slow windows of at least 1.
C19_PositiveWindows ==
    /\ \A e \in Entries(Configured) :
          LET tf == Configured[e[1]].timeframes[e[2]]
          IN  tf.fast_ma >= 1 /\ tf.slow_ma >= 1
    /\ \A key \in Keys(monitors) :
          LET m == mons[Lookup(monitors, key)]
          IN  m.fast_ma >= 1 /\ m.slow_ma >= 1

\* The timeframes a configuration holds for a key.
EntriesOf(syms, key) ==
    {e \in Entries(syms) :
        MonitorKey(syms[e[1]].name, syms[e[1]].timeframes[e[2]].granularity) = key}

\* Thread t has returned from a confirmed /addsymbol; the last confirmed
\* command to return before it was a /remsymbol of the same key, received
\* before the /addsymbol was; and no other request is being handled.
AddAfterRemove(t) ==
    /\ pc[t] = "done"
    /\ lc[t].ret = 209
    /\ prev.ret = 247
    /\ prev.key = RequestKey(t)
    /\ prev.arrival < lc[t].arrival
    /\ \A u \in Threads \ {t} : pc[u] = "idle"

\* C20: when a confirmed /remsymbol of a key is followed by a confirmed
\* /addsymbol of the key, the registry maps the key to a Worker created by
\* the add, launched with the add's windows; the Worker the key had before
\* has been asked to stop and is not in the registry; and the configuration
\* holds one entry for the key, with the add's windows.
C20_AddObservesRemove ==
    \A t \in Threads :
        AddAfterRemove(t)
        => LET key == RequestKey(t)
               fast == ParseInt(TextOf(t)[3])
               slow == ParseInt(TextOf(t)[4])
           IN  /\ HasKey(monitors, key)
               /\ LET m == Lookup(monitors, key)
                  IN  /\ m > Len(pre[t].mons)
                      /\ mons[m].fast_ma = fast /\ mons[m].slow_ma = slow
                      /\ mons[m].started /\ mons[m].active
               /\ prev.m # 0
               /\ ~mons[prev.m].active
               /\ \A i \in 1..Len(monitors) : monitors[i].m # prev.m
               /\ Cardinality(EntriesOf(Configured, key)) = 1
               /\ \A e \in EntriesOf(Configured, key) :
                     LET tf == Configured[e[1]].timeframes[e[2]]
                     IN  tf.fast_ma = fast /\ tf.slow_ma = slow

====
